---- MODULE Spec2Model ----
(***************************************************************************)
(* Model of mne/channels/interpolation.py: the spherical-spline            *)
(* interpolation matrix builder, the applier _do_interp_dots and the two   *)
(* orchestrators _interpolate_bads_eeg / _interpolate_bads_meg.            *)
(*                                                                         *)
(* Python indices are 0-based, the model's are 1-based.  Floating-point    *)
(* samples and matrix coefficients are modelled by small integers; the     *)
(* numeric value of a spline coefficient (Legendre series, pseudo-inverse) *)
(* is left open: any coefficient of Coefs may come out of the builder,     *)
(* while the shape and the row/column provenance are computed step by step *)
(* as the code computes them.  pick_types, pick_channels, _fit_sphere,     *)
(* _normalize_vectors, _get_channel_positions and _map_meg_channels live   *)
(* in other modules of the package and are modelled by their contracts.    *)
(***************************************************************************)
EXTENDS Integers, Sequences, FiniteSets, TLC

\* ------------------------------------------------------------------ bounds
NCh == 3
NSamp == 2
NTrial == 2
MaxVal == 1

Channels == 1..NCh
Times == 1..NSamp
Trials == 1..NTrial
Vals == 0..MaxVal
\* values a matrix coefficient may take
Coefs == {-1, 2}

\* ----------------------------------------------------------- state
VARIABLES inst, pc, call, hist, log, err

vars == <<inst, pc, call, hist, log, err>>

\* ------------------------------------------------- sequences and arrays
RECURSIVE Ascending(_)
Ascending(S) ==
  IF S = {} THEN <<>>
  ELSE LET m == CHOOSE x \in S : \A y \in S : x <= y
       IN <<m>> \o Ascending(S \ {m})

Range(s) == {s[k] : k \in 1..Len(s)}

\* a[mask] for a boolean mask as long as a: the entries at True, in order
RECURSIVE MaskSelect(_, _)
MaskSelect(a, mask) ==
  IF Len(a) = 0 THEN <<>>
  ELSE LET rest == MaskSelect(Tail(a), Tail(mask))
       IN IF Head(mask) THEN <<Head(a)>> \o rest ELSE rest

\* the rows an index array addresses: a boolean mask addresses the rows at
\* True in ascending order, an integer array its entries in its own order
IndexRows(idx) ==
  IF idx.tag = "mask"
    THEN MaskSelect([c \in 1..Len(idx.m) |-> c], idx.m)
    ELSE idx.i

RECURSIVE SumTo(_, _)
SumTo(f, n) == IF n = 0 THEN 0 ELSE f[n] + SumTo(f, n - 1)

\* ------------------------------------------------------------- matrices
\* A matrix keeps its shape explicitly (a 0 x g array still has g columns).
Matrix(r, c, a) == [nrow |-> r, ncol |-> c, a |-> a]

Matrices(r, c) == {Matrix(r, c, a) : a \in [1..r -> [1..c -> Coefs]]}

\* interpolation.dot(rows): rows is a sequence of sample rows
dot(interpolation, rows) ==
  [i \in 1..interpolation.nrow |->
     [s \in Times |->
        SumTo([j \in 1..interpolation.ncol |->
                 interpolation.a[i][j] * rows[j][s]], interpolation.ncol)]]

\* slip: the contraction is taken of the first trial for every trial
einsum_first_trial(interpolation, trials) ==
  [x \in Trials |-> dot(interpolation, trials[1])]

\* np.einsum('ij,xjy->xiy', interpolation, trials): one product per trial
einsum(interpolation, trials) ==
  [x \in Trials |-> dot(interpolation, trials[x])]

\* ------------------------------------------------------------ containers
\* The sample arrays the containers start from: a profile of one value per
\* channel, scaled by a weight that differs from one (trial, sample) column
\* to the next, so that no two columns of a container are interchangeable.
Profiles == [Channels -> Vals]
Scale(x, s) == (x - 1) * NSamp + s

Data2 == {[c \in Channels |-> [s \in Times |-> p[c] * Scale(1, s)]] : p \in Profiles}
Data3 ==
  {[x \in Trials |-> [c \in Channels |-> [s \in Times |-> p[c] * Scale(x, s)]]] :
     p \in Profiles}

DefaultInfo ==
  [ch_names |-> [c \in Channels |-> <<"ch", c>>],
   chs      |-> [c \in Channels |-> "eeg"],
   bads     |-> {}]

\* _BaseRaw and _BaseEpochs keep the samples in _data, Evoked in data
BaseRaw(d, info)    == [kind |-> "_BaseRaw",    _data |-> d, info |-> info]
BaseEpochs(d, info) == [kind |-> "_BaseEpochs", _data |-> d, info |-> info]
Evoked(d, info)     == [kind |-> "Evoked",      data  |-> d, info |-> info]
\* anything else: an object that is none of the three
Other(d, info)      == [kind |-> "object",      state |-> d, info |-> info]

Containers(info) ==
  {BaseRaw(d, info) : d \in Data2} \cup {BaseEpochs(d, info) : d \in Data3}
    \cup {Evoked(d, info) : d \in Data2} \cup {Other(d, info) : d \in Data2}

\* the sample array of a container, whichever attribute holds it
SamplesOf(i) ==
  CASE i.kind = "_BaseRaw"    -> i._data
    [] i.kind = "_BaseEpochs" -> i._data
    [] i.kind = "Evoked"      -> i.data
    [] OTHER                  -> i.state

\* slip: the row index is off by one (wrapping at the last channel)
AssignRows_shifted(data, brows, value) ==
  [c \in Channels |->
     IF \E i \in 1..Len(brows) : (brows[i] % NCh) + 1 = c
       THEN LET i == CHOOSE k \in 1..Len(brows) : (brows[k] % NCh) + 1 = c
            IN IF Len(value) = Len(brows) THEN value[i] ELSE value[1]
       ELSE data[c]]

\* slip: data[bads_idx] += value
AssignRows_accumulate(data, brows, value) ==
  [c \in Channels |->
     IF \E i \in 1..Len(brows) : brows[i] = c
       THEN LET i == CHOOSE k \in 1..Len(brows) : brows[k] = c
                v == IF Len(value) = Len(brows) THEN value[i] ELSE value[1]
            IN [s \in Times |-> data[c][s] + v[s]]
       ELSE data[c]]

\* data[bads_idx] = value, with numpy's broadcast of a single row
AssignRows(data, brows, value) ==
  [c \in Channels |->
     IF \E i \in 1..Len(brows) : brows[i] = c
       THEN LET i == CHOOSE k \in 1..Len(brows) :
                       brows[k] = c /\ \A l \in (k+1)..Len(brows) : brows[l] # c
            IN IF Len(value) = Len(brows) THEN value[i] ELSE value[1]
       ELSE data[c]]

Broadcastable(nrow, n) == nrow = n \/ nrow = 1

\* ------------------------------------------------------ _do_interp_dots
\* Outcome of the call: the container afterwards and the error raised, if
\* any.  A shape error of dot/einsum or of the assignment is raised by
\* numpy before the write.
NoErr == [exc |-> "none"]
ValueError(msg, arg) == [exc |-> "ValueError", msg |-> msg, arg |-> arg]

\* slip: the else branch returns without raising
Unsupported_silent(i) == [inst |-> i, err |-> NoErr]

\* the else branch: raise ValueError naming the type, nothing written
Unsupported(i) ==
  [inst |-> i,
   err |-> ValueError("Inputs of type {0} are not supported", i.kind)]

_do_interp_dots(i, interpolation, goods_idx, bads_idx) ==
  LET grows == IndexRows(goods_idx)
      brows == IndexRows(bads_idx)
      aligned == interpolation.ncol = Len(grows)
      fits == Broadcastable(interpolation.nrow, Len(brows))
      shapeErr == IF ~aligned THEN ValueError("shapes not aligned", "")
                  ELSE ValueError("shape mismatch", "")
  IN
  IF i.kind = "_BaseRaw" THEN
    IF aligned /\ fits
      THEN [inst |-> [i EXCEPT !._data = AssignRows(@, brows,
                         dot(interpolation, [j \in 1..Len(grows) |-> i._data[grows[j]]]))],
            err |-> NoErr]
      ELSE [inst |-> i, err |-> shapeErr]
  ELSE IF i.kind = "_BaseEpochs" THEN
    IF aligned /\ fits
      THEN LET out == einsum(interpolation,
                        [x \in Trials |-> [j \in 1..Len(grows) |-> i._data[x][grows[j]]]])
           IN [inst |-> [i EXCEPT !._data =
                           [x \in Trials |-> AssignRows(@[x], brows, out[x])]],
               err |-> NoErr]
      ELSE [inst |-> i, err |-> shapeErr]
  ELSE IF i.kind = "Evoked" THEN
    IF aligned /\ fits
      THEN [inst |-> [i EXCEPT !.data = AssignRows(@, brows,
                         dot(interpolation, [j \in 1..Len(grows) |-> i.data[grows[j]]]))],
            err |-> NoErr]
      ELSE [inst |-> i, err |-> shapeErr]
  ELSE Unsupported(i)

\* --------------------------------------------- direct calls of the applier
IntIdx(S) == [tag |-> "int", i |-> Ascending(S)]

\* shapes a caller may hand over for b bad and g good rows: the aligned
\* one, a single row (broadcast) and one row too many (rejected)
RowCounts(b) == {b, 1, b + 1}

InitDots ==
  /\ inst \in Containers(DefaultInfo)
  /\ pc = "ready"
  /\ call = [fn |-> "none"]
  /\ hist = <<SamplesOf(inst)>>
  /\ log = <<>>
  /\ err = NoErr

Finish(fn, args, res) ==
  /\ inst' = res.inst
  /\ err' = res.err
  /\ pc' = IF res.err = NoErr THEN "returned" ELSE "raised"
  /\ call' = [fn |-> fn, args |-> args]
  /\ hist' = Append(hist, SamplesOf(res.inst))

DoInterpDots ==
  /\ pc = "ready"
  /\ \E goods \in SUBSET Channels :
       \E bads \in SUBSET (Channels \ goods) :
         \E r \in RowCounts(Cardinality(bads)) :
           \E interpolation \in Matrices(r, Cardinality(goods)) :
             Finish("_do_interp_dots",
                    [interpolation |-> interpolation,
                     goods_idx |-> IntIdx(goods), bads_idx |-> IntIdx(bads)],
                    _do_interp_dots(inst, interpolation, IntIdx(goods), IntIdx(bads)))
  /\ log' = log

\* the same call once more on the container the first call left behind
DoInterpDotsAgain ==
  /\ pc = "returned"
  /\ call.fn = "_do_interp_dots"
  /\ Len(hist) = 2
  /\ Finish("_do_interp_dots", call.args,
            _do_interp_dots(inst, call.args.interpolation,
                            call.args.goods_idx, call.args.bads_idx))
  /\ log' = log

NextDots == DoInterpDots \/ DoInterpDotsAgain

SpecDots == InitDots /\ [][NextDots]_vars

\* ---------------------------------------------------- external collaborators
ChKinds == {"eeg", "meg"}

\* the name that is on no channel of the container
Foreign == <<"ch", 0>>

Infos ==
  {[ch_names |-> [c \in Channels |-> <<"ch", c>>], chs |-> k, bads |-> b] :
     k \in [Channels -> ChKinds],
     b \in SUBSET ({<<"ch", c>> : c \in Channels} \cup {Foreign})}

\* pick_types(info, meg=..., eeg=..., exclude=...): the indices of the
\* channels of the requested kinds whose name is not excluded, ascending.
\* exclude='bads' is passed as info.bads.
pick_types(info, meg, eeg, exclude) ==
  Ascending({c \in 1..Len(info.ch_names) :
               /\ \/ (eeg /\ info.chs[c] = "eeg")
                  \/ (meg /\ info.chs[c] = "meg")
               /\ info.ch_names[c] \notin exclude})

\* pick_channels(ch_names, include, exclude): indices INTO ch_names of the
\* names in include (all names when include is empty), ascending
pick_channels(ch_names, include, exclude) ==
  Ascending({k \in 1..Len(ch_names) :
               /\ (include = {} \/ ch_names[k] \in include)
               /\ ch_names[k] \notin exclude})

\* a sensor position is identified by the channel it belongs to
Pos(c) == <<"pos", c>>

\* inst._get_channel_positions(picks): one position per pick, in pick order
_get_channel_positions(i, picks) == [k \in 1..Len(picks) |-> Pos(picks[k])]

\* mean(distance / radius) of the sphere fit, in percent
FitRatios == {89, 90, 100, 110, 111}

\* what _fit_sphere and the mean ratio can come to: on no position at all
\* the fit may fail or the mean is not a number
FitOutcomes(pos_good) ==
  IF pos_good = <<>>
    THEN {[status |-> "raise"], [status |-> "nan"]}
    ELSE {[status |-> "fitted", ratio |-> r] : r \in FitRatios}

\* abs(1. - distance) > 0.1
PoorFit(fit) ==
  /\ fit.status = "fitted"
  /\ (IF fit.ratio >= 100 THEN fit.ratio - 100 ELSE 100 - fit.ratio) > 10

\* ------------------------------------------- _make_interpolation_matrix
stiffness == 4
num_lterms == 50

\* An array in the builder is followed by what each row and each column
\* stands for and by what its entries are; ok is false once numpy would
\* have rejected a shape.
Axes == <<"x", "y", "z">>
LArr(rows, cols, entry) == [ok |-> TRUE, rows |-> rows, cols |-> cols, entry |-> entry]
PosArray(pos) == LArr(pos, Axes, "position")

T(A) == [A EXCEPT !.rows = A.cols, !.cols = A.rows]

\* A.dot(B): rows of A by columns of B, the inner lengths must agree
ldot(A, B) ==
  [ok |-> A.ok /\ B.ok /\ Len(A.cols) = Len(B.rows),
   rows |-> A.rows, cols |-> B.cols,
   entry |-> <<"dot", A.entry, B.entry>>]

\* _normalize_vectors scales each position to unit length, row by row
_normalize_vectors(A) == [A EXCEPT !.entry = "unit"]

\* legval(cosang, [0] + factors), entry by entry; the factors of g divide by
\* (n (n + 1)) ** stiffness, those of h by (n (n + 1)) ** (stiffness - 1)
_calc_g(cosang) ==
  [cosang EXCEPT !.entry = [fn |-> "legval", pow |-> stiffness,
                            terms |-> num_lterms, of |-> @]]
_calc_h(cosang) ==
  [cosang EXCEPT !.entry = [fn |-> "legval", pow |-> stiffness - 1,
                            terms |-> num_lterms, of |-> @]]

\* G_from.flat[::len(G_from) + 1] += alpha
Regularize(G) == [G EXCEPT !.entry = <<"+alpha on diagonal", @>>]

\* linalg.pinv of an m x n array is n x m
pinv(A) == [T(A) EXCEPT !.entry = <<"pinv", @>>]

\* slip: pos_b.dot(pos_a.T)
cosang_swapped(pos_a, pos_b) == ldot(pos_b, T(pos_a))

\* pos_a.dot(pos_b.T)
cosang(pos_a, pos_b) == ldot(pos_a, T(pos_b))

_make_interpolation_matrix(pos_from, pos_to) ==
  LET from == _normalize_vectors(PosArray(pos_from))
      to == _normalize_vectors(PosArray(pos_to))
      cosang_from == cosang(from, from)
      cosang_to_from == cosang(to, from)
      G_from == Regularize(_calc_g(cosang_from))
      G_to_from == _calc_g(cosang_to_from)
      H_to_from == _calc_h(cosang_to_from)
      C_inv == pinv(G_from)
      interpolation == ldot(G_to_from, C_inv)
  IN interpolation

\* the array the builder returns once its coefficients a are known
Numeric(L, a) ==
  [nrow |-> Len(L.rows), ncol |-> Len(L.cols), a |-> a,
   rows |-> L.rows, cols |-> L.cols]

CoefArrays(L) == [1..Len(L.rows) -> [1..Len(L.cols) -> Coefs]]

\* --------------------------------------------------------- boolean masks
\* np.zeros(n, dtype=np.bool)
Zeros(n) == [c \in 1..n |-> FALSE]

\* mask[picks] = values
MaskAssign(mask, picks, values) ==
  [c \in 1..Len(mask) |->
     IF \E k \in 1..Len(picks) : picks[k] = c
       THEN values[CHOOSE k \in 1..Len(picks) : picks[k] = c]
       ELSE mask[c]]

\* slip: the bad channels are not taken out of the good mask
MaskClear_skipped(goods_idx, bads_idx) == goods_idx

\* goods_idx[bads_idx] = False
MaskClear(goods_idx, bads_idx) ==
  [c \in 1..Len(goods_idx) |-> goods_idx[c] /\ ~bads_idx[c]]

\* mask[picks]
Take(mask, picks) == [k \in 1..Len(picks) |-> mask[picks[k]]]

MaskIdx(m) == [tag |-> "mask", m |-> m]

\* ------------------------------------------------- _interpolate_bads_eeg
Outcome(i, e, l) == [inst |-> i, err |-> e, log |-> l]

CollaboratorError(who) == [exc |-> "Exception", msg |-> who, arg |-> ""]

\* len(picks) == 0 or len(bads_idx) == 0
EegNoOp(picks, bads_idx) == Len(picks) = 0 \/ Len(bads_idx) = 0

\* The set of outcomes of one call: the sphere fit and the coefficients of
\* the spline are not determined by the model.
_interpolate_bads_eeg(i) ==
  LET ch_names == i.info.ch_names
      picks == pick_types(i.info, FALSE, TRUE, {})
      bads_idx == MaskAssign(Zeros(Len(ch_names)), picks,
                    [k \in 1..Len(picks) |-> ch_names[picks[k]] \in i.info.bads])
  IN
  IF EegNoOp(picks, bads_idx) THEN {Outcome(i, NoErr, <<>>)}
  ELSE
    LET goods_idx == MaskClear(MaskAssign(Zeros(Len(ch_names)), picks,
                                 [k \in 1..Len(picks) |-> TRUE]), bads_idx)
        pos == _get_channel_positions(i, picks)
        bads_idx_pos == Take(bads_idx, picks)
        goods_idx_pos == Take(goods_idx, picks)
        pos_good == MaskSelect(pos, goods_idx_pos)
        pos_bad == MaskSelect(pos, bads_idx_pos)
        fetched == <<[op |-> "_get_channel_positions", picks |-> picks],
                     [op |-> "_fit_sphere", points |-> pos_good]>>
        L == _make_interpolation_matrix(pos_good, pos_bad)
        built(fit) ==
          fetched
            \o (IF PoorFit(fit)
                  THEN <<[op |-> "logger.warning",
                          msg |-> "Your spherical fit is poor, interpolation results are likely to be inaccurate."]>>
                  ELSE <<>>)
            \o <<[op |-> "logger.info",
                   msg |-> "Computing interpolation matrix from {0} sensor positions",
                   arg |-> Len(pos_good)],
                  [op |-> "_make_interpolation_matrix",
                   pos_from |-> pos_good, pos_to |-> pos_bad, result |-> L]>>
        applied(fit, interpolation) ==
          LET res == _do_interp_dots(i, interpolation,
                                     MaskIdx(goods_idx), MaskIdx(bads_idx))
          IN Outcome(res.inst, res.err,
               built(fit)
                 \o <<[op |-> "logger.info", msg |-> "Interpolating {0} sensors",
                        arg |-> Len(pos_bad)],
                       [op |-> "_do_interp_dots", interpolation |-> interpolation,
                        goods_idx |-> MaskIdx(goods_idx),
                        bads_idx |-> MaskIdx(bads_idx)]>>)
    IN
    UNION {IF fit.status = "raise"
             THEN {Outcome(i, CollaboratorError("_fit_sphere"), fetched)}
           ELSE IF ~L.ok
             THEN {Outcome(i, ValueError("shapes not aligned", ""), built(fit))}
           ELSE {applied(fit, Numeric(L, a)) : a \in CoefArrays(L)}
           : fit \in FitOutcomes(pos_good)}

\* ------------------------------------------------- _interpolate_bads_meg
Modes == {"accurate", "fast"}

\* _map_meg_channels(inst, pick_from, pick_to, mode): some mapping with one
\* row per channel of pick_to and one column per channel of pick_from
_map_meg_channels(i, pick_from, pick_to, mode) ==
  Matrices(Len(pick_to), Len(pick_from))

\* slip: no guard for an empty bad list, for which pick_channels picks all
SelectBadMeg_unguarded(ch_names, bads) == pick_channels(ch_names, bads, {})

\* select the bad meg channel to be interpolated
SelectBadMeg(ch_names, bads) ==
  IF Cardinality(bads) = 0 THEN <<>> ELSE pick_channels(ch_names, bads, {})

\* len(picks_meg) == 0 or len(picks_bad) == 0
MegNoOp(picks_meg, picks_bad) == Len(picks_meg) = 0 \/ Len(picks_bad) = 0

_interpolate_bads_meg(i, mode) ==
  LET picks_meg == pick_types(i.info, TRUE, FALSE, {})
      ch_names == [k \in 1..Len(picks_meg) |-> i.info.ch_names[picks_meg[k]]]
      picks_good == pick_types(i.info, TRUE, FALSE, i.info.bads)
      picks_bad == SelectBadMeg(ch_names, i.info.bads)
  IN
  IF MegNoOp(picks_meg, picks_bad) THEN {Outcome(i, NoErr, <<>>)}
  ELSE
    {LET res == _do_interp_dots(i, mapping,
                  [tag |-> "int", i |-> picks_good],
                  [tag |-> "int", i |-> picks_bad])
     IN Outcome(res.inst, res.err,
          <<[op |-> "_map_meg_channels", pick_from |-> picks_good,
             pick_to |-> picks_bad, mode |-> mode],
            [op |-> "_do_interp_dots", interpolation |-> mapping,
             goods_idx |-> [tag |-> "int", i |-> picks_good],
             bads_idx |-> [tag |-> "int", i |-> picks_bad]]>>)
     : mapping \in _map_meg_channels(i, picks_good, picks_bad, mode)}

\* ------------------------------------------------------- the orchestrators
Init ==
  /\ \E info \in Infos : inst \in Containers(info)
  /\ pc = "ready"
  /\ call = [fn |-> "none"]
  /\ hist = <<SamplesOf(inst)>>
  /\ log = <<>>
  /\ err = NoErr

InterpolateBadsEeg ==
  /\ pc = "ready"
  /\ \E res \in _interpolate_bads_eeg(inst) :
       /\ Finish("_interpolate_bads_eeg", [inst |-> inst], res)
       /\ log' = res.log

InterpolateBadsMeg ==
  /\ pc = "ready"
  /\ \E mode \in Modes :
       \E res \in _interpolate_bads_meg(inst, mode) :
         /\ Finish("_interpolate_bads_meg", [inst |-> inst, mode |-> mode], res)
         /\ log' = res.log

Next == InterpolateBadsEeg \/ InterpolateBadsMeg

Spec == Init /\ [][Next]_vars
\* ------------------------------------------- the builder called on its own
MaxPos == 2

\* the sequences of at most n distinct sensor positions
RECURSIVE PosSeqs(_)
PosSeqs(n) ==
  IF n = 0 THEN {<<>>}
  ELSE PosSeqs(n - 1) \cup
       UNION {{Append(p, Pos(c)) : c \in {d \in Channels : Pos(d) \notin Range(p)}} :
                p \in {q \in PosSeqs(n - 1) : Len(q) = n - 1}}

InitMatrix ==
  /\ inst = BaseRaw([c \in Channels |-> [s \in Times |-> 0]], DefaultInfo)
  /\ pc = "ready"
  /\ call = [fn |-> "none"]
  /\ hist = <<SamplesOf(inst)>>
  /\ log = <<>>
  /\ err = NoErr

MakeInterpolationMatrix ==
  /\ pc = "ready"
  /\ \E pos_from \in PosSeqs(MaxPos) : \E pos_to \in PosSeqs(MaxPos) :
       LET L == _make_interpolation_matrix(pos_from, pos_to)
           args == [pos_from |-> pos_from, pos_to |-> pos_to]
       IN IF L.ok
            THEN \E a \in CoefArrays(L) :
                   /\ call' = [fn |-> "_make_interpolation_matrix", args |-> args,
                               result |-> Numeric(L, a)]
                   /\ pc' = "returned"
                   /\ err' = NoErr
            ELSE /\ call' = [fn |-> "_make_interpolation_matrix", args |-> args]
                 /\ pc' = "raised"
                 /\ err' = ValueError("shapes not aligned", "")
  /\ UNCHANGED <<inst, hist, log>>

NextMatrix == MakeInterpolationMatrix

SpecMatrix == InitMatrix /\ [][NextMatrix]_vars
\* ================================================================ claims
Before == hist[Len(hist) - 1]
After == hist[Len(hist)]

\* all samples of channel c: one row, or one row per trial
ChanRow(kind, d, c) ==
  IF kind = "_BaseEpochs" THEN [x \in Trials |-> d[x][c]] ELSE d[c]

DotsReturned == call.fn = "_do_interp_dots" /\ pc = "returned"
GoodRows == IndexRows(call.args.goods_idx)
BadRows == IndexRows(call.args.bads_idx)

\* C1: after _do_interp_dots returns, every channel that is not in the bad
\* index set holds the samples it held before the call, whatever the shape
\* of the container.
C1_OnlyBadRowsChange ==
  DotsReturned =>
    \A c \in Channels \ Range(BadRows) :
      ChanRow(inst.kind, After, c) = ChanRow(inst.kind, Before, c)

C1_Witness ==
  /\ DotsReturned
  /\ inst.kind = "_BaseEpochs"
  /\ Len(GoodRows) >= 1
  /\ Len(BadRows) >= 1
  /\ Range(GoodRows) \cup Range(BadRows) # Channels
  /\ \E c \in Range(BadRows) :
       ChanRow(inst.kind, After, c) # ChanRow(inst.kind, Before, c)

\* sum over the good rows j <= n of matrix[i][j] * (good row j at sample s)
RECURSIVE Weighted(_, _, _, _, _, _)
Weighted(d, m, grows, i, s, n) ==
  IF n = 0 THEN 0
  ELSE m.a[i][n] * d[grows[n]][s] + Weighted(d, m, grows, i, s, n - 1)

\* C2: after _do_interp_dots with a |bad| x |good| matrix, bad row i is the
\* sum over j of matrix[i][j] * good row j as it was before the call; in a
\* segmented container this holds trial by trial, from that trial's own
\* good rows.
C2_BadRowsAreProduct ==
  (DotsReturned /\ call.args.interpolation.nrow = Len(BadRows)) =>
    \A i \in 1..Len(BadRows) : \A s \in Times :
      IF inst.kind = "_BaseEpochs"
        THEN \A x \in Trials :
               After[x][BadRows[i]][s] =
                 Weighted(Before[x], call.args.interpolation, GoodRows, i, s,
                          Len(GoodRows))
        ELSE After[BadRows[i]][s] =
               Weighted(Before, call.args.interpolation, GoodRows, i, s,
                        Len(GoodRows))

C2_Witness ==
  /\ DotsReturned
  /\ inst.kind = "_BaseEpochs"
  /\ call.args.interpolation.nrow = Len(BadRows)
  /\ Len(BadRows) >= 1
  /\ Len(GoodRows) >= 2
  /\ \E x, y \in Trials : \E c \in Range(BadRows) :
       After[x][c] # After[y][c] /\ Before[x][c] = Before[y][c]

\* C3: a second _do_interp_dots with the same matrix and index sets leaves
\* the container as the first one left it.
C3_SecondCallChangesNothing ==
  (DotsReturned /\ Len(hist) = 3) => hist[3] = hist[2]

C3_Witness ==
  /\ DotsReturned
  /\ Len(hist) = 3
  /\ hist[2] # hist[1]
  /\ \E c \in Range(BadRows) : \E s \in Times :
       ChanRow(inst.kind, hist[1], c) # ChanRow(inst.kind, hist[2], c)

\* C4: on an object of none of the three types _do_interp_dots raises the
\* 'Inputs of type ... are not supported' error naming the type, and the
\* object is as it was before the call.
C4_UnsupportedRaises ==
  (call.fn = "_do_interp_dots" /\ inst.kind = "object") =>
    /\ pc = "raised"
    /\ err = ValueError("Inputs of type {0} are not supported", "object")
    /\ After = Before
    /\ inst.state = hist[1]

C4_Witness ==
  /\ call.fn = "_do_interp_dots"
  /\ inst.kind = "object"
  /\ pc = "raised"
  /\ Len(BadRows) >= 1
  /\ Len(GoodRows) >= 1
  /\ call.args.interpolation.nrow = Len(BadRows)

\* the channels of one kind, and those of them named in the bad list
OfKind(k) == {c \in Channels : inst.info.chs[c] = k}
BadOfKind(k) == {c \in OfKind(k) : inst.info.ch_names[c] \in inst.info.bads}

Changed == {c \in Channels :
              ChanRow(inst.kind, After, c) # ChanRow(inst.kind, Before, c)}

\* C5: when no channel of the path's kind is named in the bad list (or the
\* container has no channel of that kind), the samples after
\* _interpolate_bads_eeg / _interpolate_bads_meg equal those before.
C5_NoBadNoChange ==
  /\ (call.fn = "_interpolate_bads_eeg" /\ BadOfKind("eeg") = {}) => After = Before
  /\ (call.fn = "_interpolate_bads_meg" /\ BadOfKind("meg") = {}) => After = Before

C5_Witness ==
  /\ call.fn = "_interpolate_bads_eeg"
  /\ pc = "returned"
  /\ inst.kind = "_BaseRaw"
  /\ Cardinality(OfKind("eeg")) >= 2
  /\ BadOfKind("eeg") = {}
  /\ BadOfKind("meg") # {}
  /\ \E c \in OfKind("eeg") : \E s \in Times : After[c][s] # 0
  /\ After = Before

\* C6: after _interpolate_bads_meg only rows of MEG channels named in the
\* bad list differ from their values before the call, and the rows handed
\* to the applier for writing are the rows of the bad MEG channels.
C6_OnlyBadMegRowsWritten ==
  call.fn = "_interpolate_bads_meg" =>
    /\ Changed \subseteq BadOfKind("meg")
    /\ \A k \in 1..Len(log) :
         log[k].op = "_do_interp_dots" =>
           Range(IndexRows(log[k].bads_idx)) = BadOfKind("meg")

ApplierCalls == {k \in 1..Len(log) : log[k].op = "_do_interp_dots"}

\* C8: whenever _interpolate_bads_eeg reaches the applier, good and bad are
\* disjoint, together they are the EEG channels, bad is the EEG channels
\* named in the bad list, the matrix is |bad| x |good|, and its rows /
\* columns were built from the positions of the bad / good channels in the
\* ascending order in which the applier addresses them.
C8_PartitionAndOrder ==
  call.fn = "_interpolate_bads_eeg" =>
    \A k \in ApplierCalls :
      LET g == IndexRows(log[k].goods_idx)
          b == IndexRows(log[k].bads_idx)
          m == log[k].interpolation
      IN /\ Range(g) \cap Range(b) = {}
         /\ Range(g) \cup Range(b) = OfKind("eeg")
         /\ Range(b) = BadOfKind("eeg")
         /\ m.nrow = Len(b) /\ m.ncol = Len(g)
         /\ m.rows = [i \in 1..Len(b) |-> Pos(b[i])]
         /\ m.cols = [j \in 1..Len(g) |-> Pos(g[j])]
         /\ \A i, j \in 1..Len(b) : i < j => b[i] < b[j]
         /\ \A i, j \in 1..Len(g) : i < j => g[i] < g[j]

C8_Witness ==
  /\ call.fn = "_interpolate_bads_eeg"
  /\ pc = "returned"
  /\ ApplierCalls # {}
  /\ BadOfKind("eeg") # {}
  /\ OfKind("eeg") \ BadOfKind("eeg") # {}
  /\ BadOfKind("meg") # {}
  /\ Changed # {}

\* C9: whenever _interpolate_bads_eeg invokes the sphere fit and
\* _make_interpolation_matrix, the good positions passed are non-empty.
C9_GoodPositionsNonEmpty ==
  call.fn = "_interpolate_bads_eeg" =>
    \A k \in 1..Len(log) :
      /\ log[k].op = "_fit_sphere" => log[k].points # <<>>
      /\ log[k].op = "_make_interpolation_matrix" => log[k].pos_from # <<>>

\* C10: with at least one EEG channel and no bad EEG channel,
\* _interpolate_bads_eeg returns at the no-op check: no position is
\* fetched, no sphere fit, no message, no matrix, no applier call.
C10_SilentReturn ==
  (call.fn = "_interpolate_bads_eeg"
     /\ OfKind("eeg") # {} /\ BadOfKind("eeg") = {}) =>
    /\ pc = "returned"
    /\ log = <<>>

====
